---- MODULE Spec2Model ----
(***************************************************************************)
(* Model of the keysplitting package: SplitD (additive and multiplicative  *)
(* splitting of an RSA private exponent), SignFirst / SignNext (the        *)
(* sequential signing chain) and the PKCS#1 v1.5 encoding and verifier.    *)
(*                                                                         *)
(* Scaling.  TLC's integers are 32 bits wide, so one octet of the Go code  *)
(* is modelled as one digit of radix ByteRadix and the digest sizes and    *)
(* DigestInfo prefixes of the hash table are scaled to one digit.  The     *)
(* structure of the encoded message (0x00, 0x01, at least eight 0xFF,      *)
(* 0x00, prefix, digest), the length checks, the stripping of leading zero *)
(* octets by big.Int.Bytes and the padding by big.Int.FillBytes are kept.  *)
(* big.Int values are unbounded in Go; the keys and the RNG outputs below  *)
(* are chosen so that no value of a run leaves TLC's integer range.        *)
(***************************************************************************)
EXTENDS Integers, Sequences, FiniteSets, TLC

(* ------------------------------ bounds --------------------------------- *)

\* The largest number of shards k asked of SplitD.
MaxShards == 3

\* The longest hashed input handed to SignFirst.
MaxHashedLen == 2

\* For a totient up to SmallPhi every RNG output in [0, phi) is explored;
\* above it the RNG outputs are the sample RngSamples.
SmallPhi == 48

\* One octet is one digit of this radix (256 in Go).
ByteRadix == 2

\* RNG outputs explored for a totient above SmallPhi: the rejected values
\* 0, 1, an even number, the private exponent of BigKey, and four units.
RngSamples == {0, 1, 2, 7, 1111, 3589, 5489, 6271}

(* --------------------------- math/big.Int ------------------------------ *)

\* A nil *big.Int (results of the operations below are never negative).
NilInt == -1

Abs(x) == IF x < 0 THEN -x ELSE x

RECURSIVE Euclid(_, _)
Euclid(a, b) == IF b = 0 THEN a ELSE Euclid(b, a % b)

\* big.Int.GCD(nil, nil, a, b): the result is >= 0 whatever the signs.
GCD(a, b) == Euclid(Abs(a), Abs(b))

\* <<g, x, y>> with a*x + b*y = g, for a, b >= 0.
RECURSIVE ExtEuclid(_, _)
ExtEuclid(a, b) ==
    IF b = 0 THEN <<a, 1, 0>>
    ELSE LET r == ExtEuclid(b, a % b)
         IN  <<r[1], r[3], r[2] - (a \div b) * r[3]>>

\* big.Int.ModInverse(g, n), n > 0: nil when g and n are not coprime.
ModInverse(g, n) ==
    LET r == ExtEuclid(g % n, n)
    IN  IF r[1] # 1 THEN NilInt ELSE r[2] % n

RECURSIVE PowMod(_, _, _)
PowMod(x, y, m) ==
    IF y = 0 THEN 1 % m
    ELSE LET h  == PowMod(x, y \div 2, m)
             sq == (h * h) % m
         IN  IF y % 2 = 1 THEN (sq * (x % m)) % m ELSE sq

\* big.Int.Exp(x, y, m), m > 0.  For y < 0 it is (x^-1)^|y| mod m, and nil
\* when x has no inverse modulo m.
Exp(x, y, m) ==
    IF y < 0
    THEN LET inv == ModInverse(x, m)
         IN  IF inv = NilInt THEN NilInt ELSE PowMod(inv, -y, m)
    ELSE PowMod(x, y, m)

\* big.Int.Bytes: the big-endian digits of |x| without leading zeros
\* (the empty string for 0).
RECURSIVE Bytes(_)
Bytes(x) ==
    IF Abs(x) = 0 THEN <<>>
    ELSE Append(Bytes(Abs(x) \div ByteRadix), Abs(x) % ByteRadix)

\* big.Int.SetBytes: the big-endian unsigned value of b.
RECURSIVE SetBytes(_)
SetBytes(b) ==
    IF b = <<>> THEN 0
    ELSE SetBytes(SubSeq(b, 1, Len(b) - 1)) * ByteRadix + b[Len(b)]

\* big.Int.FillBytes into a buffer of n octets: left-padded with zeros.
FillBytes(x, n) ==
    LET b == Bytes(x)
    IN  [j \in 1 .. n |-> IF j <= n - Len(b) THEN 0 ELSE b[j - (n - Len(b))]]

\* rsa.PublicKey.Size: the length of the modulus in octets.
Size(N) == Len(Bytes(N))

(* ------------------------- PKCS#1 v1.5 signing ------------------------- *)

\* crypto.Hash(0): hashed is signed directly.
Raw == "Raw"

\* The hash identifiers handed to the signer: the raw sentinel, two entries
\* of hashPrefixes, a crypto.Hash constant that has no entry (MD4), and a
\* number that is no crypto.Hash constant.
HashFns == {Raw, "MD5SHA1", "SHA512", "MD4", "Hash(99)"}

\* The identifiers below crypto's maxHash: those with a digest size.
SizedHashes == {"MD5SHA1", "SHA512", "MD4"}

\* crypto.Hash.Size, scaled: one digit per digest.  It panics on a number
\* that is no crypto.Hash constant.
HashSize(hash) == IF hash \in SizedHashes THEN 1 ELSE NilInt

\* hashPrefixes, scaled: MD5SHA1 has the empty prefix of the TLS case, SHA512
\* a DigestInfo prefix of one digit.
hashPrefixes == [h \in {"MD5SHA1", "SHA512"} |->
                    IF h = "MD5SHA1" THEN <<>> ELSE <<1>>]

NoError == "nil"
ErrHashedLength == "crypto/rsa: input must be hashed message"
ErrUnsupportedHash == "crypto/rsa: unsupported hash function"
ErrMessageTooLong == "rsa.ErrMessageTooLong"
ErrDecryption == "rsa.ErrDecryption"
ErrVerification == "rsa.ErrVerification"
ErrNextSignature == "failed to add next signature"
ErrSplitBy == "unrecognized splitBy argument"
ErrFewShards == "cannot split key into fewer than 2 shards"
ErrRng == "rand.Int error"
\* A run-time panic (a nil dereference, an index out of range).
Panic == "panic"

\* A faulty pkcs1v15HashInfo without the test of the input length.
pkcs1v15HashInfoAnyLength(hash, inLen) ==
    IF hash = Raw
    THEN [hashLen |-> inLen, prefix |-> <<>>, err |-> NoError]
    ELSE IF HashSize(hash) = NilInt
    THEN [hashLen |-> 0, prefix |-> <<>>, err |-> Panic]
    ELSE IF hash \notin DOMAIN hashPrefixes
    THEN [hashLen |-> 0, prefix |-> <<>>, err |-> ErrUnsupportedHash]
    ELSE [hashLen |-> HashSize(hash), prefix |-> hashPrefixes[hash],
          err |-> NoError]

pkcs1v15HashInfo(hash, inLen) ==
    IF hash = Raw
    THEN [hashLen |-> inLen, prefix |-> <<>>, err |-> NoError]
    ELSE IF HashSize(hash) = NilInt
    THEN [hashLen |-> 0, prefix |-> <<>>, err |-> Panic]
    ELSE IF inLen # HashSize(hash)
    THEN [hashLen |-> 0, prefix |-> <<>>, err |-> ErrHashedLength]
    ELSE IF hash \notin DOMAIN hashPrefixes
    THEN [hashLen |-> 0, prefix |-> <<>>, err |-> ErrUnsupportedHash]
    ELSE [hashLen |-> HashSize(hash), prefix |-> hashPrefixes[hash],
          err |-> NoError]

\* The least number of octets of 0x00, 0x01, PS (eight 0xFF at least), 0x00.
MinPadding == 11

\* A faulty encoding whose padding runs over the separator octet.
EncodedMessageNoSeparator(k, prefix, hashed) ==
    LET hashLen == Len(hashed)
        tLen    == Len(prefix) + hashLen
    IN  [j \in 1 .. k |->
            IF j = 1 THEN 0
            ELSE IF j = 2 THEN 1
            ELSE IF j <= k - tLen THEN ByteRadix - 1
            ELSE IF j <= k - hashLen THEN prefix[j - (k - tLen)]
            ELSE hashed[j - (k - hashLen)]]

\* A faulty encoding whose first octet is 0xFF instead of 0x00.
EncodedMessageNoLeadingZero(k, prefix, hashed) ==
    LET hashLen == Len(hashed)
        tLen    == Len(prefix) + hashLen
    IN  [j \in 1 .. k |->
            IF j = 1 THEN ByteRadix - 1
            ELSE IF j = 2 THEN 1
            ELSE IF j < k - tLen THEN ByteRadix - 1
            ELSE IF j = k - tLen THEN 0
            ELSE IF j <= k - hashLen THEN prefix[j - (k - tLen)]
            ELSE hashed[j - (k - hashLen)]]

\* EM = 0x00 || 0x01 || PS || 0x00 || prefix || hashed, k octets long.
EncodedMessage(k, prefix, hashed) ==
    LET hashLen == Len(hashed)
        tLen    == Len(prefix) + hashLen
    IN  [j \in 1 .. k |->
            IF j = 1 THEN 0
            ELSE IF j = 2 THEN 1
            ELSE IF j < k - tLen THEN ByteRadix - 1
            ELSE IF j = k - tLen THEN 0
            ELSE IF j <= k - hashLen THEN prefix[j - (k - tLen)]
            ELSE hashed[j - (k - hashLen)]]

\* decrypt: c^D mod N with no CRT, no blinding, no key check.
decrypt(priv, c) ==
    IF c > priv.N THEN [m |-> NilInt, err |-> ErrDecryption]
    ELSE IF priv.N = 0 THEN [m |-> NilInt, err |-> ErrDecryption]
    ELSE [m |-> Exp(c, priv.D, priv.N), err |-> NoError]

signPKCS1v15(priv, hash, hashed) ==
    LET info == pkcs1v15HashInfo(hash, Len(hashed))
        tLen == Len(info.prefix) + info.hashLen
        k    == Size(priv.N)
    IN  IF info.err # NoError THEN [sig |-> <<>>, err |-> info.err]
        ELSE IF k < tLen + MinPadding
        THEN [sig |-> <<>>, err |-> ErrMessageTooLong]
        ELSE LET em == EncodedMessage(k, info.prefix, hashed)
                 c  == decrypt(priv, SetBytes(em))
             IN  IF c.err # NoError THEN [sig |-> <<>>, err |-> c.err]
                 \* c.FillBytes(em) on the nil result of Exp
                 ELSE IF c.m = NilInt THEN [sig |-> <<>>, err |-> Panic]
                 ELSE [sig |-> FillBytes(c.m, k), err |-> NoError]

\* SplitBy
Multiplication == 0
Addition == 1

SignFirst(shard, hashFn, hashed) ==
    signPKCS1v15([N |-> shard.PublicKey.N, E |-> shard.PublicKey.E,
                  D |-> shard.D], hashFn, hashed)

\* A faulty SignNext that checks the hash arguments under every scheme.
SignNextCheckingHash(shard, hashFn, hashed, by, partialSig) ==
    LET info       == pkcs1v15HashInfo(hashFn, Len(hashed))
        partialInt == SetBytes(partialSig)
    IN  IF info.err # NoError THEN [sig |-> <<>>, err |-> info.err]
        ELSE IF by = Multiplication
        THEN LET nextSig == Exp(partialInt, shard.D, shard.PublicKey.N)
             IN  IF nextSig = NilInt
                 THEN [sig |-> <<>>, err |-> ErrNextSignature]
                 ELSE [sig |-> Bytes(nextSig), err |-> NoError]
        ELSE IF by = Addition
        THEN LET nextBaseSig == SignFirst(shard, hashFn, hashed)
             IN  IF nextBaseSig.err # NoError THEN nextBaseSig
                 ELSE [sig |-> Bytes((SetBytes(nextBaseSig.sig) * partialInt)
                                        % shard.PublicKey.N),
                       err |-> NoError]
        ELSE [sig |-> <<>>, err |-> ErrSplitBy]

SignNext(shard, hashFn, hashed, by, partialSig) ==
    LET partialInt == SetBytes(partialSig)
    IN  IF by = Multiplication
        THEN LET nextSig == Exp(partialInt, shard.D, shard.PublicKey.N)
             IN  IF nextSig = NilInt
                 THEN [sig |-> <<>>, err |-> ErrNextSignature]
                 ELSE [sig |-> Bytes(nextSig), err |-> NoError]
        ELSE IF by = Addition
        THEN LET nextBaseSig == SignFirst(shard, hashFn, hashed)
             IN  IF nextBaseSig.err # NoError THEN nextBaseSig
                 ELSE [sig |-> Bytes((SetBytes(nextBaseSig.sig) * partialInt)
                                        % shard.PublicKey.N),
                       err |-> NoError]
        ELSE [sig |-> <<>>, err |-> ErrSplitBy]

\* A faulty broker that forgets the final reduction modulo N.
RECURSIVE brokerProductUnreduced(_, _)
brokerProductUnreduced(sigs, N) ==
    IF sigs = <<>> THEN 1
    ELSE brokerProductUnreduced(SubSeq(sigs, 1, Len(sigs) - 1), N)
            * SetBytes(sigs[Len(sigs)])

\* The broker of runAdditiveBrokered: the partial signatures as integers,
\* multiplied, modulo N.  The reduction is taken after every factor, which
\* gives the value of the single final reduction.
RECURSIVE brokerProduct(_, _)
brokerProduct(sigs, N) ==
    IF sigs = <<>> THEN 1 % N
    ELSE (brokerProduct(SubSeq(sigs, 1, Len(sigs) - 1), N)
            * SetBytes(sigs[Len(sigs)])) % N

\* runAdditiveBrokered: every party signs with SignFirst, the broker
\* combines.  NilInt when one of the SignFirst calls fails.
runAdditiveBrokered(shardList, hashFn, hashed, N) ==
    LET partial == [j \in 1 .. Len(shardList) |->
                        SignFirst(shardList[j], hashFn, hashed)]
    IN  IF \E j \in 1 .. Len(shardList) : partial[j].err # NoError
        THEN NilInt
        ELSE brokerProduct([j \in 1 .. Len(shardList) |-> partial[j].sig], N)

(* ------------------------ PKCS#1 v1.5 verifier ------------------------- *)

encrypt(pub, m) == Exp(m, pub.E, pub.N)

\* rsa.VerifyPKCS1v15: NoError when sig is a signature of hashed.
VerifyPKCS1v15(pub, hash, hashed, sig) ==
    LET info    == pkcs1v15HashInfo(hash, Len(hashed))
        hashLen == info.hashLen
        tLen    == Len(info.prefix) + hashLen
        k       == Size(pub.N)
    IN  IF info.err # NoError THEN info.err
        ELSE IF k < tLen + MinPadding THEN ErrVerification
        ELSE IF k # Len(sig) THEN ErrVerification
        ELSE LET em == FillBytes(encrypt(pub, SetBytes(sig)), k)
                 ok == /\ em[1] = 0
                       /\ em[2] = 1
                       /\ SubSeq(em, k - hashLen + 1, k) = hashed
                       /\ SubSeq(em, k - tLen + 1, k - hashLen) = info.prefix
                       /\ em[k - tLen] = 0
                       /\ \A j \in 3 .. k - tLen - 1 : em[j] = ByteRadix - 1
             IN  IF ok THEN NoError ELSE ErrVerification

(* ------------------------------ splitting ------------------------------ *)

\* A faulty totient that stops after the first two primes.
eulerTotientTwoPrimes(primes) ==
    IF Len(primes) < 2 THEN NilInt
    ELSE (primes[1] - 1) * (primes[2] - 1)

\* phi <- (p[0] - 1) * (p[1] - 1), then times (p[i] - 1) for i >= 2.
RECURSIVE totientLoop(_, _, _)
totientLoop(primes, i, phi) ==
    IF i > Len(primes) THEN phi
    ELSE totientLoop(primes, i + 1, phi * (primes[i] - 1))

\* eulerTotient; indexing primes[0], primes[1] panics on a shorter list.
eulerTotient(primes) ==
    IF Len(primes) < 2 THEN NilInt
    ELSE totientLoop(primes, 3, (primes[1] - 1) * (primes[2] - 1))

congruentModN(a, b, N) == a % N = b % N

\* A nil *SplitPrivateKey (an unfilled slot of make([]*SplitPrivateKey, k)).
NilShard == [nil |-> TRUE]

NewShard(priv, d) == [PublicKey |-> [N |-> priv.N, E |-> priv.E], D |-> d]

RECURSIVE shardSum(_)
shardSum(shards) ==
    IF shards = <<>> THEN 0
    ELSE LET s == shards[Len(shards)]
         IN  shardSum(SubSeq(shards, 1, Len(shards) - 1))
                + (IF s # NilShard THEN s.D ELSE 0)

shardIn(shards, shard) ==
    \E j \in 1 .. Len(shards) : shards[j] # NilShard /\ shards[j].D = shard.D

\* A faulty sampler that does not test the draw against phi.
validRandomNumberNoGCD(r, phi, seed) ==
    r # 0 /\ r # 1 /\ r # seed

\* One pass of validRandomNumber's loop on the RNG output r: TRUE when r is
\* returned, FALSE when the loop draws again.
validRandomNumber(r, phi, seed) ==
    /\ GCD(r, phi) = 1
    /\ r # 0 /\ r # 1 /\ r # seed

\* A faulty splitSeed that multiplies by shardA instead of its inverse.
splitSeedNoInverse(seed, shardA, phi) == seed * shardA

\* splitSeed: shardB <- seed * shardA^-1, the inverse taken modulo phi.
splitSeed(seed, shardA, phi) == seed * ModInverse(shardA, phi)

\* The final shard of the additive split from the sum of the others:
\* D - sum when sum < D, phi - sum + D when sum > D, a restart when sum = D.
finalShard(sum, D, phi) ==
    IF sum < D THEN [restart |-> FALSE, D |-> D - sum]
    ELSE IF sum > D THEN [restart |-> FALSE, D |-> (phi - sum) + D]
    ELSE [restart |-> TRUE, D |-> 0]

\* A faulty loop exit that appends shardB one iteration late.
needsLastShardLate(len, k) == len = k

\* splitMultiplicative: after shardA is appended, shardB is appended too and
\* the loop left when only one more shard is needed.
needsLastShard(len, k) == len = k - 1

(* --------------------------- encoding/asn1 ----------------------------- *)

\* A DER stream is a sequence of numbers: a tag, a length (short form: the
\* payloads here stay under 128 octets), then the content octets.
TagInteger == 2
TagOctetString == 4
TagSequence == 48

ASN1Error == "asn1: structure error"

RECURSIVE Power(_, _)
Power(b, n) == IF n = 0 THEN 1 ELSE b * Power(b, n - 1)

\* The shortest two's complement representation of i < 0, n octets or more.
RECURSIVE negativeContent(_, _)
negativeContent(i, n) ==
    IF 2 * (-i) <= Power(ByteRadix, n)
    THEN FillBytes(Power(ByteRadix, n) + i, n)
    ELSE negativeContent(i, n + 1)

\* A faulty INTEGER content without the octet that keeps the sign.
intContentUnsigned(i) == IF i = 0 THEN <<0>> ELSE Bytes(i)

\* The content of an INTEGER: minimal two's complement, for i > 0 with a
\* zero octet in front when the top bit of the first octet is set.
intContent(i) ==
    IF i = 0 THEN <<0>>
    ELSE IF i < 0 THEN negativeContent(i, 1)
    ELSE LET b == Bytes(i)
         IN  IF 2 * b[1] >= ByteRadix THEN <<0>> \o b ELSE b

marshalTLV(tag, content) == <<tag, Len(content)>> \o content

\* asn1.Marshal(splitPrivateKey{PublicKey: publicKey{N, E}, D})
MarshalSplitPrivateKey(v) ==
    marshalTLV(TagSequence,
        marshalTLV(TagSequence,
            marshalTLV(TagOctetString, v.PublicKey.N)
                \o marshalTLV(TagInteger, intContent(v.PublicKey.E)))
        \o marshalTLV(TagOctetString, v.D))

\* asn1.Marshal(privateKeyShard{PublicKey: publicKey{N, E}, D, SplitBy})
MarshalPrivateKeyShard(v) ==
    marshalTLV(TagSequence,
        marshalTLV(TagSequence,
            marshalTLV(TagOctetString, v.PublicKey.N)
                \o marshalTLV(TagInteger, intContent(v.PublicKey.E)))
        \o marshalTLV(TagOctetString, v.D)
        \o marshalTLV(TagInteger, intContent(v.SplitBy)))

\* One tag-length-value element from the front of b, and what follows it.
parseTLV(b) ==
    IF Len(b) < 2 \/ b[2] > Len(b) - 2
    THEN [ok |-> FALSE, tag |-> 0, content |-> <<>>, rest |-> <<>>]
    ELSE [ok |-> TRUE, tag |-> b[1],
          content |-> SubSeq(b, 3, 2 + b[2]),
          rest |-> SubSeq(b, 3 + b[2], Len(b))]

\* parseInt: the content must be present and minimally encoded.
validInteger(c) ==
    /\ c # <<>>
    /\ Len(c) >= 2 =>
          /\ ~(c[1] = 0 /\ 2 * c[2] < ByteRadix)
          /\ ~(c[1] = ByteRadix - 1 /\ 2 * c[2] >= ByteRadix)

\* The two's complement value of the content of an INTEGER.
intValue(c) ==
    IF 2 * c[1] >= ByteRadix
    THEN SetBytes(c) - Power(ByteRadix, Len(c))
    ELSE SetBytes(c)

ZeroPublicKey == [N |-> <<>>, E |-> 0]

\* asn1.Unmarshal into a struct of the fields (PublicKey{N, E}, D) and, when
\* withSplitBy, SplitBy.  The fields parsed before an error keep their
\* values, the others stay zero; rest is nil on an error.  Bytes left inside
\* a SEQUENCE after its last field are allowed.
Unmarshal(der, withSplitBy) ==
    LET zero == IF withSplitBy
                THEN [PublicKey |-> ZeroPublicKey, D |-> <<>>, SplitBy |-> 0]
                ELSE [PublicKey |-> ZeroPublicKey, D |-> <<>>]
        top  == parseTLV(der)
        pk   == parseTLV(top.content)
        n    == parseTLV(pk.content)
        e    == parseTLV(n.rest)
        d    == parseTLV(pk.rest)
        sb   == parseTLV(d.rest)
        fail(v) == [val |-> v, rest |-> <<>>, err |-> ASN1Error]
        withN  == [zero EXCEPT !.PublicKey.N = n.content]
        withE  == [withN EXCEPT !.PublicKey.E = intValue(e.content)]
        withD  == [withE EXCEPT !.D = d.content]
    IN  IF ~top.ok \/ top.tag # TagSequence THEN fail(zero)
        ELSE IF ~pk.ok \/ pk.tag # TagSequence THEN fail(zero)
        ELSE IF ~n.ok \/ n.tag # TagOctetString THEN fail(zero)
        ELSE IF ~e.ok \/ e.tag # TagInteger \/ ~validInteger(e.content)
        THEN fail(withN)
        ELSE IF ~d.ok \/ d.tag # TagOctetString THEN fail(withE)
        ELSE IF ~withSplitBy
        THEN [val |-> withD, rest |-> top.rest, err |-> NoError]
        ELSE IF ~sb.ok \/ sb.tag # TagInteger \/ ~validInteger(sb.content)
        THEN fail(withD)
        ELSE [val |-> [withD EXCEPT !.SplitBy = intValue(sb.content)],
              rest |-> top.rest, err |-> NoError]

(* ------------------------- encoding/pem, codec ------------------------- *)

\* A PEM text is a sequence of lines: the BEGIN line of a block, its body
\* (base64 is one-to-one on octet strings: the body line holds the octets it
\* stands for), its END line, and any other text.
pemType == "RSA SPLIT PRIVATE KEY"

PemLine(kind, type, bytes) == [kind |-> kind, type |-> type, bytes |-> bytes]

TextLine == PemLine("text", "", <<>>)

\* pem.Encode(&pem.Block{Type, Bytes})
pemEncode(type, bytes) ==
    << PemLine("begin", type, <<>>), PemLine("body", "", bytes),
       PemLine("end", type, <<>>) >>

NilBlock == [nil |-> TRUE]

\* The line numbers at which a well-formed block starts.
blockStarts(text) ==
    {n \in 1 .. Len(text) - 2 :
        /\ text[n].kind = "begin"
        /\ text[n + 1].kind = "body"
        /\ text[n + 2].kind = "end"
        /\ text[n + 2].type = text[n].type}

\* pem.Decode: the first block of the text and what follows it; a nil block
\* and the whole text when there is none.
pemDecode(text) ==
    LET starts == blockStarts(text)
        first  == CHOOSE n \in starts : \A o \in starts : n <= o
    IN  IF starts = {} THEN [block |-> NilBlock, rest |-> text]
        ELSE [block |-> [Type |-> text[first].type,
                         Bytes |-> text[first + 1].bytes],
              rest |-> SubSeq(text, first + 3, Len(text))]

ErrDecodePEM == "failed to decode PEM block"
ErrUnmarshalDER == "failed to unmarshal DER-encoded private key shard"

\* (*SplitPrivateKey).EncodePEM
EncodePEM(spk) ==
    LET b == MarshalSplitPrivateKey(
                 [PublicKey |-> [N |-> Bytes(spk.PublicKey.N),
                                 E |-> spk.PublicKey.E],
                  D |-> Bytes(spk.D)])
    IN  [pem |-> pemEncode(pemType, b), err |-> NoError]

\* DecodePEM returning a *SplitPrivateKey: rest is dropped twice.
DecodePEM(encoded) ==
    LET p == pemDecode(encoded)
        u == Unmarshal(p.block.Bytes, FALSE)
    IN  IF p.block = NilBlock \/ p.block.Type # pemType
        THEN [shard |-> NilShard, err |-> ErrDecodePEM]
        ELSE [shard |-> [PublicKey |-> [N |-> SetBytes(u.val.PublicKey.N),
                                        E |-> u.val.PublicKey.E],
                         D |-> SetBytes(u.val.D)],
              err |-> u.err]

\* (*PrivateKeyShard).EncodePEM
PrivateKeyShardEncodePEM(pks) ==
    LET b == MarshalPrivateKeyShard(
                 [PublicKey |-> [N |-> Bytes(pks.PublicKey.N),
                                 E |-> pks.PublicKey.E],
                  D |-> Bytes(pks.D),
                  SplitBy |-> pks.SplitBy])
    IN  [pem |-> pemEncode(pemType, b), err |-> NoError]

\* DecodePEM returning a *PrivateKeyShard
PrivateKeyShardDecodePEM(encodedPks) ==
    LET p == pemDecode(encodedPks)
        u == Unmarshal(p.block.Bytes, TRUE)
    IN  IF p.block = NilBlock \/ p.block.Type # pemType \/ Len(p.rest) > 0
        THEN [shard |-> NilShard, err |-> ErrDecodePEM]
        ELSE IF Len(u.rest) > 0
        THEN [shard |-> NilShard, err |-> ErrUnmarshalDER]
        ELSE [shard |-> [PublicKey |-> [N |-> SetBytes(u.val.PublicKey.N),
                                        E |-> u.val.PublicKey.E],
                         D |-> SetBytes(u.val.D),
                         SplitBy |-> u.val.SplitBy],
              err |-> u.err]

(* -------------------------------- keys --------------------------------- *)

\* rsa.PrivateKey values: N the product of Primes, E * D = 1 mod phi(N).
TinyKey == [N |-> 33, E |-> 7, D |-> 3, Primes |-> <<3, 11>>]
MultiPrimeKey == [N |-> 105, E |-> 5, D |-> 29, Primes |-> <<3, 5, 7>>]
\* The same modulus with the exponents exchanged: a small private exponent.
SmallDKey == [N |-> 105, E |-> 29, D |-> 5, Primes |-> <<3, 5, 7>>]
\* A modulus of 13 digits: long enough for the padding and a prefixed digest.
BigKey == [N |-> 7957, E |-> 1111, D |-> 7, Primes |-> <<73, 109>>]

\* A key whose list of primes has a single entry.
OnePrimeKey == [N |-> 7, E |-> 5, D |-> 5, Primes |-> <<7>>]

\* A key with a totient of four units: phi = 8, and E * D = 25 = 1 mod 8.
FewUnitsKey == [N |-> 15, E |-> 5, D |-> 5, Primes |-> <<3, 5>>]

Keys == {TinyKey, MultiPrimeKey, SmallDKey, BigKey, OnePrimeKey, FewUnitsKey}

\* The outputs of rand.Int(rand.Reader, phi) that are explored.
RandValues(phi) ==
    IF phi <= SmallPhi THEN 0 .. phi - 1 ELSE {r \in RngSamples : r < phi}

\* The hashed inputs: every octet string up to MaxHashedLen.
HashedInputs ==
    UNION {[1 .. n -> 0 .. ByteRadix - 1] : n \in 0 .. MaxHashedLen}

(* ----------------------------- the program ----------------------------- *)

VARIABLES
    key,      \* the rsa.PrivateKey given to SplitD
    k,        \* the number of shards asked for
    splitBy,  \* the SplitBy argument of SplitD and of SignNext
    pc,       \* where the run is: "SplitD", "splitMultiplicative",
              \* "splitAdditive", "returned", "failed", "signing",
              \* "signFailed", "panic", "encoded", "altered", "decoded"
    shards,   \* the shards built so far, and the list SplitD returned
    seed,     \* splitMultiplicative's seed
    i,        \* splitAdditive's slot index
    err,      \* the error a call returned
    hashFn,   \* the hash identifier of the signing session
    hashed,   \* the hashed message of the signing session
    sig,      \* the bytes returned by the last sign call
    signers,  \* the indices of the shards that have signed, in order
    codec,    \* the shard type of the PEM session
    original, \* the shard given to EncodePEM
    encoded,  \* the PEM text given to DecodePEM
    decoded,  \* what DecodePEM returned: a shard and an error
    heap,     \* concurrent calls: the value behind every pointer
    heap0,    \* concurrent calls: the heap when the calls started
    cpc,      \* concurrent calls: where each call is
    loc,      \* concurrent calls: the local variables of SplitD
    res       \* concurrent calls: what each call returned

vars == <<key, k, splitBy, pc, shards, seed, i, err, hashFn, hashed, sig,
          signers, codec, original, encoded, decoded, heap, heap0, cpc, loc,
          res>>

splitVars == <<shards, seed, i>>
signVars == <<hashFn, hashed, sig, signers>>
pemVars == <<codec, original, encoded, decoded>>
frameVars == <<heap, heap0, cpc, loc, res>>

phiOfKey == eulerTotient(key.Primes)

Init ==
    /\ key \in Keys
    /\ k \in 0 .. MaxShards
    /\ splitBy \in {Multiplication, Addition, Addition + 1}
    /\ pc = "SplitD"
    /\ shards = <<>>
    /\ seed = 0
    /\ i = 0
    /\ err = NoError
    /\ hashFn = Raw
    /\ hashed = <<>>
    /\ sig = <<>>
    /\ signers = <<>>
    /\ codec = "SplitPrivateKey"
    /\ original = NilShard
    /\ encoded = <<>>
    /\ decoded = [shard |-> NilShard, err |-> NoError]
    /\ heap = <<>> /\ heap0 = <<>> /\ cpc = <<>> /\ loc = <<>> /\ res = <<>>

\* A faulty arity test that lets a single shard through.
tooFewShardsOffByOne(n) == n < 1

\* SplitD's first test: if k < 2.
tooFewShards(n) == n < 2

\* SplitD up to the first RNG call of the chosen algorithm.
SplitD ==
    /\ pc = "SplitD"
    /\ UNCHANGED frameVars
    /\ UNCHANGED <<key, k, splitBy, signVars, pemVars>>
    /\ IF tooFewShards(k)
       THEN /\ pc' = "failed" /\ err' = ErrFewShards
            /\ UNCHANGED splitVars
       ELSE IF phiOfKey = NilInt
       THEN /\ pc' = "panic" /\ err' = Panic
            /\ UNCHANGED splitVars
       ELSE IF splitBy = Multiplication
       THEN /\ pc' = "splitMultiplicative"
            /\ shards' = <<>>
            /\ seed' = key.D
            /\ UNCHANGED <<i, err>>
       ELSE IF splitBy = Addition
       THEN /\ pc' = "splitAdditive"
            /\ shards' = [j \in 1 .. k |-> NilShard]
            /\ i' = 0
            /\ UNCHANGED <<seed, err>>
       ELSE /\ pc' = "failed" /\ err' = ErrSplitBy
            /\ UNCHANGED splitVars

\* splitMultiplicative from one RNG output r to the next RNG call or to the
\* return: validRandomNumber's check of r, splitSeed, the appends.
SplitMultiplicativeStep(r) ==
    /\ pc = "splitMultiplicative"
    /\ UNCHANGED frameVars
    /\ UNCHANGED <<key, k, splitBy, i, err, signVars, pemVars>>
    /\ IF \/ ~validRandomNumber(r, phiOfKey, seed)
          \/ ModInverse(r, phiOfKey) = NilInt
       THEN UNCHANGED <<pc, shards, seed>>
       ELSE LET shardB == splitSeed(seed, r, phiOfKey)
                grown  == Append(shards, NewShard(key, r))
            IN  IF needsLastShard(Len(grown), k)
                THEN /\ shards' = Append(grown, NewShard(key, shardB))
                     /\ pc' = "returned"
                     /\ UNCHANGED seed
                ELSE /\ shards' = grown
                     /\ seed' = shardB
                     /\ pc' = IF Len(grown) < k THEN "splitMultiplicative"
                                                ELSE "returned"

\* splitAdditive from one RNG output r to the next RNG call or to the
\* return: the check of r, the duplicate test, and after slot k-2 the final
\* shard with its restarts.
SplitAdditiveStep(r) ==
    /\ pc = "splitAdditive"
    /\ UNCHANGED frameVars
    /\ UNCHANGED <<key, k, splitBy, seed, err, signVars, pemVars>>
    /\ LET newShard == NewShard(key, r)
       IN  IF \/ ~validRandomNumber(r, phiOfKey, key.D)
              \/ shardIn(shards, newShard)
           THEN UNCHANGED <<pc, shards, i>>
           ELSE LET filled == [shards EXCEPT ![i + 1] = newShard]
                    final  == finalShard(shardSum(filled), key.D, phiOfKey)
                    last   == NewShard(key, final.D)
                IN  IF i + 1 < k - 1
                    THEN /\ shards' = filled
                         /\ i' = i + 1
                         /\ UNCHANGED pc
                    ELSE IF final.restart \/ shardIn(filled, last)
                    THEN /\ shards' = [j \in 1 .. k |-> NilShard]
                         /\ i' = 0
                         /\ UNCHANGED pc
                    ELSE /\ shards' = [filled EXCEPT ![k] = last]
                         /\ i' = k
                         /\ pc' = "returned"

\* rand.Int returns an error: the split returns nil and the error.
RngFailure ==
    /\ pc \in {"splitMultiplicative", "splitAdditive"}
    /\ UNCHANGED frameVars
    /\ pc' = "failed"
    /\ err' = ErrRng
    /\ shards' = <<>>
    /\ UNCHANGED <<key, k, splitBy, seed, i, signVars, pemVars>>

\* SignFirst with any one of the returned shards (the shards are shuffled
\* before the chain) on any hashed input.
SignFirstStep(j, h, hs) ==
    /\ pc = "returned"
    /\ UNCHANGED frameVars
    /\ UNCHANGED <<key, k, splitBy, splitVars, pemVars>>
    /\ LET r == SignFirst(shards[j], h, hs)
       IN  IF r.err = NoError
           THEN /\ pc' = "signing"
                /\ sig' = r.sig
                /\ signers' = <<j>>
                /\ hashFn' = h
                /\ hashed' = hs
                /\ UNCHANGED err
           ELSE /\ pc' = IF r.err = Panic THEN "panic" ELSE "signFailed"
                /\ err' = r.err
                /\ UNCHANGED signVars

Signed == {signers[n] : n \in 1 .. Len(signers)}

\* SignNext with a shard that has not signed yet, on the partial signature.
SignNextStep(j) ==
    /\ pc = "signing"
    /\ UNCHANGED frameVars
    /\ j \notin Signed
    /\ UNCHANGED <<key, k, splitBy, splitVars, hashFn, hashed, pemVars>>
    /\ LET r == SignNext(shards[j], hashFn, hashed, splitBy, sig)
       IN  IF r.err = NoError
           THEN /\ sig' = r.sig
                /\ signers' = Append(signers, j)
                /\ UNCHANGED <<pc, err>>
           ELSE /\ pc' = IF r.err = Panic THEN "panic" ELSE "signFailed"
                /\ err' = r.err
                /\ UNCHANGED <<sig, signers>>

Codecs == {"SplitPrivateKey", "PrivateKeyShard"}

EncodeWith(c, shard) ==
    IF c = "SplitPrivateKey" THEN EncodePEM(shard)
                             ELSE PrivateKeyShardEncodePEM(shard)

DecodeWith(c, text) ==
    IF c = "SplitPrivateKey" THEN DecodePEM(text)
                             ELSE PrivateKeyShardDecodePEM(text)

\* EncodePEM on one of the returned shards; a PrivateKeyShard carries the
\* SplitBy of the split as well.
EncodePEMStep(j, c) ==
    /\ pc = "returned"
    /\ UNCHANGED frameVars
    /\ LET shard == IF c = "SplitPrivateKey" THEN shards[j]
                    ELSE [PublicKey |-> shards[j].PublicKey,
                          D |-> shards[j].D, SplitBy |-> splitBy]
       IN  /\ original' = shard
           /\ encoded' = EncodeWith(c, shard).pem
    /\ codec' = c
    /\ pc' = "encoded"
    /\ UNCHANGED <<key, k, splitBy, splitVars, err, signVars, decoded>>

\* The texts DecodePEM may be handed instead of what EncodePEM wrote.
Alterations ==
    {"trailing text", "trailing DER", "truncated DER", "wrong type",
     "no block"}

Altered(text, how) ==
    LET der == text[2].bytes
    IN  CASE how = "trailing text" -> text \o <<TextLine>>
          [] how = "trailing DER" ->
                 [text EXCEPT ![2].bytes = der \o <<0>>]
          [] how = "truncated DER" ->
                 [text EXCEPT ![2].bytes = SubSeq(der, 1, Len(der) - 1)]
          [] how = "wrong type" ->
                 pemEncode("RSA PRIVATE KEY", der)
          [] how = "no block" -> <<TextLine>>

\* The PEM text is altered between EncodePEM and DecodePEM.
AlterStep(how) ==
    /\ pc = "encoded"
    /\ UNCHANGED frameVars
    /\ encoded' = Altered(encoded, how)
    /\ pc' = "altered"
    /\ UNCHANGED <<key, k, splitBy, splitVars, err, signVars, codec,
                   original, decoded>>

DecodePEMStep ==
    /\ pc \in {"encoded", "altered"}
    /\ UNCHANGED frameVars
    /\ decoded' = DecodeWith(codec, encoded)
    /\ pc' = "decoded"
    /\ UNCHANGED <<key, k, splitBy, splitVars, err, signVars, codec,
                   original, encoded>>

Next ==
    \/ SplitD
    \/ \E r \in RandValues(phiOfKey) : SplitMultiplicativeStep(r)
    \/ \E r \in RandValues(phiOfKey) : SplitAdditiveStep(r)
    \/ RngFailure
    \/ \E j \in 1 .. Len(shards), h \in HashFns, hs \in HashedInputs :
          SignFirstStep(j, h, hs)
    \/ \E j \in 1 .. Len(shards) : SignNextStep(j)
    \/ \E j \in 1 .. Len(shards), c \in Codecs : EncodePEMStep(j, c)
    \/ \E how \in Alterations : AlterStep(how)
    \/ DecodePEMStep

Spec == Init /\ [][Next]_vars

\* SplitD alone: the key is split and nothing is done with the shards.
NextSplit ==
    \/ SplitD
    \/ \E r \in RandValues(phiOfKey) : SplitMultiplicativeStep(r)
    \/ \E r \in RandValues(phiOfKey) : SplitAdditiveStep(r)
    \/ RngFailure

SpecSplit == Init /\ [][NextSplit]_vars

\* A split followed by a signing chain.
NextSign ==
    \/ NextSplit
    \/ \E j \in 1 .. Len(shards), h \in HashFns, hs \in HashedInputs :
          SignFirstStep(j, h, hs)
    \/ \E j \in 1 .. Len(shards) : SignNextStep(j)

SpecSign == Init /\ [][NextSign]_vars

\* A split and a signing chain with the key whose modulus is long enough
\* for the padding of the encoded message.
InitBig == Init /\ key = BigKey

SpecSignBig == InitBig /\ [][NextSign]_vars

\* A split followed by a PEM session on one of the shards.
NextPEM ==
    \/ NextSplit
    \/ \E j \in 1 .. Len(shards), c \in Codecs : EncodePEMStep(j, c)
    \/ \E how \in Alterations : AlterStep(how)
    \/ DecodePEMStep

SpecPEM == Init /\ [][NextPEM]_vars

\* SplitD with an RNG that never returns an error.
NextSplitNoRngError ==
    \/ SplitD
    \/ \E r \in RandValues(phiOfKey) : SplitMultiplicativeStep(r)
    \/ \E r \in RandValues(phiOfKey) : SplitAdditiveStep(r)

\* splitAdditive with the slots before n filled as in sh can still return
\* without a restart: some sequence of RNG outputs fills the remaining slots
\* and gives a final shard that is accepted.
RECURSIVE CanReturn(_, _)
CanReturn(sh, n) ==
    \E r \in RandValues(phiOfKey) :
        /\ validRandomNumber(r, phiOfKey, key.D)
        /\ ~shardIn(sh, NewShard(key, r))
        /\ LET filled == [sh EXCEPT ![n + 1] = NewShard(key, r)]
               final  == finalShard(shardSum(filled), key.D, phiOfKey)
           IN  IF n + 1 < k - 1 THEN CanReturn(filled, n + 1)
               ELSE ~final.restart /\ ~shardIn(filled, NewShard(key, final.D))

\* A draw for slot n of splitAdditive after which the split has returned or
\* can still return without a restart.
GoodDraw(n) ==
    /\ i = n
    /\ \E r \in RandValues(phiOfKey) : SplitAdditiveStep(r)
    /\ pc' = "returned" \/ (i' = n + 1 /\ CanReturn(shards', i'))

\* A fair random source.  rand.Int is uniform on [0, phi): a value that is
\* accepted is drawn after finitely many rejected ones, and at a point of
\* the loops that is passed again and again every value is drawn.
FairRandom ==
    /\ WF_vars(SplitD)
    /\ WF_vars(\E r \in RandValues(phiOfKey) : SplitMultiplicativeStep(r))
    /\ WF_vars(\E r \in RandValues(phiOfKey) : SplitAdditiveStep(r))
    /\ \A n \in 0 .. MaxShards - 2 : SF_vars(GoodDraw(n))

SpecSplitFair == Init /\ [][NextSplitNoRngError]_vars /\ FairRandom

(* ----------------- concurrent calls on a heap of pointers -------------- *)

\* SplitD, SignFirst and SignNext reach their arguments through pointers
\* (*rsa.PrivateKey, *big.Int, []byte) and the package keeps two *big.Int in
\* package variables.  Here every such value is a cell of a heap; a method
\* z.Op(x, y) of math/big reads the cells of x and y and writes the cell of
\* its receiver z.  Three calls run concurrently, interleaved statement by
\* statement: SplitD on the key, SignFirst with one shard of the key and
\* SignNext with another shard on a partial signature.
Procs == {"SplitD", "SignFirst", "SignNext"}

Cell(name, n) == <<name, n>>

\* No cell: a nil pointer.
NilCell == Cell("nil", 0)

\* The arguments of the calls and the package variables.
privN == Cell("priv.N", 0)
privD == Cell("priv.D", 0)
privPrimes == Cell("priv.Primes", 0)
bigZero == Cell("bigZero", 0)
bigOne == Cell("bigOne", 0)
hashedCell == Cell("hashed", 0)
partialSigCell == Cell("partialSig", 0)
\* shard.D of the shard signing in call c of signPKCS1v15: call 1 is made by
\* SignFirst, call 2 by the SignFirst inside SignNext.
shardD(c) == Cell("shard.D", c)

InputCells ==
    {privN, privD, privPrimes, bigZero, bigOne, hashedCell, partialSigCell,
     shardD(1), shardD(2)}

\* The values the calls allocate.
phiCell == Cell("phi", 0)
partialInt == Cell("partialInt", 0)
nextBaseInt == Cell("nextBaseInt", 0)
nextSigCell == Cell("nextSig", 0)
emCell(c) == Cell("em", c)
mCell(c) == Cell("m", c)
cCell(c) == Cell("c", c)

LocalCells ==
    {phiCell, partialInt, nextBaseInt, nextSigCell}
        \cup {Cell(nm, n) : nm \in {"shardA", "shardB", "newShard"},
                            n \in 1 .. MaxShards}
        \cup {Cell(nm, c) : nm \in {"em", "m", "c"}, c \in {1, 2}}

\* The heap at the start of the calls.
InitialHeap(priv, dFirst, dNext, hs, ps) ==
    [c \in InputCells \cup LocalCells |->
        CASE c = privN -> priv.N
          [] c = privD -> priv.D
          [] c = privPrimes -> priv.Primes
          [] c = bigZero -> 0
          [] c = bigOne -> 1
          [] c = hashedCell -> hs
          [] c = partialSigCell -> ps
          [] c = shardD(1) -> dFirst
          [] c = shardD(2) -> dNext
          [] OTHER -> NilInt]

\* Shards of BigKey for the two signing calls: two shards of a
\* multiplicative split, and the first and the last of an additive split.
SampleShardPairs == {<<1111, 49>>, <<3589, -1295>>}

\* The partial signature given to SignNext: Size(N) octets.
SamplePartial(n) == FillBytes(4088, Size(n))

NoResult == [val |-> <<>>, err |-> "running"]

InitFrame ==
    /\ key = BigKey
    /\ k \in 1 .. MaxShards
    /\ splitBy \in {Multiplication, Addition, Addition + 1}
    /\ hashFn \in HashFns
    /\ hashed \in HashedInputs
    /\ pc = "SplitD"
    /\ shards = <<>>
    /\ seed = 0
    /\ i = 0
    /\ err = NoError
    /\ sig = <<>>
    /\ signers = <<>>
    /\ codec = "SplitPrivateKey"
    /\ original = NilShard
    /\ encoded = <<>>
    /\ decoded = [shard |-> NilShard, err |-> NoError]
    /\ \E pair \in SampleShardPairs :
          heap0 = InitialHeap(key, pair[1], pair[2], hashed,
                              SamplePartial(key.N))
    /\ heap = heap0
    /\ cpc = [p \in Procs |-> p]
    /\ loc = [seed |-> privD, out |-> <<>>, draws |-> <<>>]
    /\ res = [p \in Procs |-> NoResult]

\* What no concurrent call writes: the arguments passed by value and the
\* variables of the sequential runs.
callArgs == <<key, k, splitBy, pc, err, splitVars, signVars, pemVars, heap0>>

\* Call p returns the value v and the error e.
Return(p, v, e) ==
    /\ res' = [res EXCEPT ![p] = [val |-> v, err |-> e]]
    /\ cpc' = [cpc EXCEPT ![p] = IF e = Panic THEN "panic" ELSE "done"]

Goto(p, label) ==
    /\ cpc' = [cpc EXCEPT ![p] = label]
    /\ UNCHANGED res

\* The shards behind a list of pointers, as the heap h has them.
Deref(h, out) ==
    [j \in 1 .. Len(out) |->
        IF out[j] = NilCell THEN NilShard
        ELSE NewShard([N |-> h[privN], E |-> key.E], h[out[j]])]

\* SplitD up to the first RNG call: phi <- new(big.Int), seed := priv.D.
HeapSplitD ==
    /\ cpc["SplitD"] = "SplitD"
    /\ UNCHANGED callArgs
    /\ IF tooFewShards(k)
       THEN /\ Return("SplitD", <<>>, ErrFewShards)
            /\ UNCHANGED <<heap, loc>>
       ELSE IF eulerTotient(heap[privPrimes]) = NilInt
       THEN /\ Return("SplitD", <<>>, Panic)
            /\ UNCHANGED <<heap, loc>>
       ELSE /\ heap' = [heap EXCEPT
                           ![phiCell] = eulerTotient(heap[privPrimes])]
            /\ IF splitBy = Multiplication
               THEN /\ Goto("SplitD", "splitMultiplicative")
                    /\ loc' = [seed |-> privD, out |-> <<>>, draws |-> <<>>]
               ELSE IF splitBy = Addition
               THEN /\ Goto("SplitD", "splitAdditive")
                    /\ loc' = [seed |-> privD,
                               out |-> [j \in 1 .. k |-> NilCell],
                               draws |-> <<>>]
               ELSE /\ Return("SplitD", <<>>, ErrSplitBy)
                    /\ UNCHANGED loc

\* A faulty splitSeed that multiplies in place: seed.Mul(seed, inverse).
shardBInPlace(seedCell, n) == seedCell

\* splitSeed: shardB = new(big.Int).Mul(seed, shardAInverse), a new value.
shardBReceiver(seedCell, n) == Cell("shardB", n)

\* One round of splitMultiplicative on the RNG output r.
HeapSplitMultiplicative(r) ==
    /\ cpc["SplitD"] = "splitMultiplicative"
    /\ UNCHANGED callArgs
    /\ LET phi  == heap[phiCell]
           sd   == heap[loc.seed]
           n    == Len(loc.out) + 1
       IN  IF \/ ~validRandomNumber(r, phi, sd)
              \/ ModInverse(r, phi) = NilInt
           THEN UNCHANGED <<heap, cpc, loc, res>>
           ELSE LET shardA == Cell("shardA", n)
                    shardB == shardBReceiver(loc.seed, n)
                    grown  == Append(loc.out, shardA)
                IN  /\ heap' = [[heap EXCEPT ![shardA] = r]
                                      EXCEPT ![shardB] = splitSeed(sd, r, phi)]
                    /\ IF needsLastShard(Len(grown), k)
                       THEN /\ loc' = [loc EXCEPT
                                          !.out = Append(grown, shardB),
                                          !.draws = Append(@, r)]
                            /\ Return("SplitD", Append(grown, shardB),
                                      NoError)
                       ELSE /\ loc' = [loc EXCEPT !.out = grown,
                                                  !.seed = shardB,
                                                  !.draws = Append(@, r)]
                            /\ IF Len(grown) < k
                               THEN UNCHANGED <<cpc, res>>
                               ELSE Return("SplitD", grown, NoError)

\* One draw of splitAdditive on the RNG output r, and after the last drawn
\* slot the final shard.
HeapSplitAdditive(r) ==
    /\ cpc["SplitD"] = "splitAdditive"
    /\ UNCHANGED callArgs
    /\ LET phi  == heap[phiCell]
           n    == Len(loc.draws) + 1
           pub0 == [N |-> heap[privN], E |-> key.E]
       IN  IF \/ ~validRandomNumber(r, phi, heap[privD])
              \/ shardIn(Deref(heap, loc.out), NewShard(pub0, r))
           THEN UNCHANGED <<heap, cpc, loc, res>>
           ELSE LET newShard == Cell("newShard", n)
                    drawn    == [heap EXCEPT ![newShard] = r]
                    out      == [loc.out EXCEPT ![n] = newShard]
                    final    == finalShard(shardSum(Deref(drawn, out)),
                                           heap[privD], phi)
                    last     == Cell("newShard", k)
                IN  IF n < k - 1
                    THEN /\ heap' = drawn
                         /\ loc' = [loc EXCEPT !.out = out,
                                               !.draws = Append(@, r)]
                         /\ UNCHANGED <<cpc, res>>
                    ELSE IF \/ final.restart
                            \/ shardIn(Deref(drawn, out),
                                       NewShard(pub0, final.D))
                    THEN /\ heap' = drawn
                         /\ loc' = [loc EXCEPT
                                       !.out = [j \in 1 .. k |-> NilCell],
                                       !.draws = <<>>]
                         /\ UNCHANGED <<cpc, res>>
                    ELSE /\ heap' = [drawn EXCEPT ![last] = final.D]
                         /\ loc' = [loc EXCEPT !.out = [out EXCEPT ![k] = last],
                                               !.draws = Append(@, r)]
                         /\ Return("SplitD", [out EXCEPT ![k] = last],
                                   NoError)

HeapRngFailure ==
    /\ cpc["SplitD"] \in {"splitMultiplicative", "splitAdditive"}
    /\ Return("SplitD", <<>>, ErrRng)
    /\ UNCHANGED <<heap, loc>>
    /\ UNCHANGED callArgs

\* The call that runs call c of signPKCS1v15.
procOfCall(c) == IF c = 1 THEN "SignFirst" ELSE "SignNext"

\* signPKCS1v15 up to the call of decrypt: em is made and filled, m is set.
HeapSignPKCS1v15(c) ==
    /\ cpc[procOfCall(c)] = IF c = 1 THEN "SignFirst" ELSE "signPKCS1v15"
    /\ UNCHANGED <<callArgs, loc>>
    /\ LET info == pkcs1v15HashInfo(hashFn, Len(heap[hashedCell]))
           tLen == Len(info.prefix) + info.hashLen
           kN   == Size(heap[privN])
           em   == EncodedMessage(kN, info.prefix, heap[hashedCell])
       IN  IF info.err # NoError
           THEN /\ Return(procOfCall(c), <<>>, info.err)
                /\ UNCHANGED heap
           ELSE IF kN < tLen + MinPadding
           THEN /\ Return(procOfCall(c), <<>>, ErrMessageTooLong)
                /\ UNCHANGED heap
           ELSE /\ heap' = [heap EXCEPT ![emCell(c)] = em,
                                        ![mCell(c)] = SetBytes(em)]
                /\ Goto(procOfCall(c), "decrypt")

\* decrypt: c <- new(big.Int).Exp(m, priv.D, priv.N).
HeapDecrypt(c) ==
    /\ cpc[procOfCall(c)] = "decrypt"
    /\ UNCHANGED <<callArgs, loc>>
    /\ LET d == decrypt([N |-> heap[privN], D |-> heap[shardD(c)]],
                        heap[mCell(c)])
       IN  IF d.err # NoError
           THEN /\ Return(procOfCall(c), <<>>, d.err)
                /\ UNCHANGED heap
           ELSE /\ heap' = [heap EXCEPT ![cCell(c)] = d.m]
                /\ Goto(procOfCall(c), "FillBytes")

\* c.FillBytes(em): the signature is written into the buffer of em.
HeapFillBytes(c) ==
    /\ cpc[procOfCall(c)] = "FillBytes"
    /\ UNCHANGED <<callArgs, loc>>
    /\ IF heap[cCell(c)] = NilInt
       THEN /\ Return(procOfCall(c), <<>>, Panic)
            /\ UNCHANGED heap
       ELSE LET out == FillBytes(heap[cCell(c)], Len(heap[emCell(c)]))
            IN  /\ heap' = [heap EXCEPT ![emCell(c)] = out]
                /\ IF c = 1 THEN Return("SignFirst", out, NoError)
                            ELSE Goto("SignNext", "Mul")

\* SignNext: partialInt := new(big.Int).SetBytes(partialSig), the switch.
HeapSignNext ==
    /\ cpc["SignNext"] = "SignNext"
    /\ UNCHANGED <<callArgs, loc>>
    /\ heap' = [heap EXCEPT ![partialInt] = SetBytes(heap[partialSigCell])]
    /\ IF splitBy = Multiplication THEN Goto("SignNext", "Exp")
       ELSE IF splitBy = Addition THEN Goto("SignNext", "signPKCS1v15")
       ELSE Return("SignNext", <<>>, ErrSplitBy)

\* nextSig := new(big.Int).Exp(partialInt, shard.D, shard.PublicKey.N)
HeapExp ==
    /\ cpc["SignNext"] = "Exp"
    /\ UNCHANGED <<callArgs, loc>>
    /\ LET nextSig == Exp(heap[partialInt], heap[shardD(2)], heap[privN])
       IN  IF nextSig = NilInt
           THEN /\ Return("SignNext", <<>>, ErrNextSignature)
                /\ UNCHANGED heap
           ELSE /\ heap' = [heap EXCEPT ![nextSigCell] = nextSig]
                /\ Return("SignNext", Bytes(nextSig), NoError)

\* nextBaseInt := SetBytes(nextBaseSig); nextSig := Mul(nextBaseInt, partialInt)
HeapMul ==
    /\ cpc["SignNext"] = "Mul"
    /\ UNCHANGED <<callArgs, loc>>
    /\ LET base == SetBytes(heap[emCell(2)])
       IN  heap' = [heap EXCEPT ![nextBaseInt] = base,
                                ![nextSigCell] = base * heap[partialInt]]
    /\ Goto("SignNext", "Mod")

\* nextSig.Mod(nextSig, shard.PublicKey.N); return nextSig.Bytes()
HeapMod ==
    /\ cpc["SignNext"] = "Mod"
    /\ UNCHANGED <<callArgs, loc>>
    /\ LET nextSig == heap[nextSigCell] % heap[privN]
       IN  /\ heap' = [heap EXCEPT ![nextSigCell] = nextSig]
           /\ Return("SignNext", Bytes(nextSig), NoError)

NextFrame ==
    \/ HeapSplitD
    \/ \E r \in RandValues(heap[phiCell]) : HeapSplitMultiplicative(r)
    \/ \E r \in RandValues(heap[phiCell]) : HeapSplitAdditive(r)
    \/ HeapRngFailure
    \/ \E c \in {1, 2} : HeapSignPKCS1v15(c)
    \/ \E c \in {1, 2} : HeapDecrypt(c)
    \/ \E c \in {1, 2} : HeapFillBytes(c)
    \/ HeapSignNext
    \/ HeapExp
    \/ HeapMul
    \/ HeapMod

SpecFrame == InitFrame /\ [][NextFrame]_vars

TypeOK ==
    /\ pc \in {"SplitD", "splitMultiplicative", "splitAdditive", "returned",
               "failed", "signing", "signFailed", "panic", "encoded",
               "altered", "decoded"}
    /\ k \in 0 .. MaxShards

(* ------------------------------ the claims ----------------------------- *)

pub == [N |-> key.N, E |-> key.E]

\* phi(N) as the product of (p - 1) over all the primes of the key.
RECURSIVE PhiOfPrimes(_)
PhiOfPrimes(primes) ==
    IF primes = <<>> THEN 1
    ELSE (primes[1] - 1) * PhiOfPrimes(Tail(primes))

PhiN == PhiOfPrimes(key.Primes)

\* SplitD has just returned its list of shards.
SplitReturned == pc = "returned"

\* Every shard has signed: sig is what the terminal sign call returned.
ChainComplete == pc = "signing" /\ Len(signers) = k

\* The chain ran in the order of the list SplitD returned.
NaturalOrder == signers = [n \in 1 .. Len(signers) |-> n]

Verifies == VerifyPKCS1v15(pub, hashFn, hashed, sig) = NoError

\* The residue modulo n of shardProduct(shards), the product of the shard
\* exponents, reduced after every factor.
RECURSIVE shardProduct(_, _)
shardProduct(list, n) ==
    IF list = <<>> THEN 1 % n
    ELSE (shardProduct(SubSeq(list, 1, Len(list) - 1), n)
            * (list[Len(list)].D % n)) % n

\* C1: under Addition, for every order of the shards, the bytes returned by
\* the last SignNext of the chain verify under the key's (N, e).
C1_AdditiveChainVerifies ==
    (ChainComplete /\ splitBy = Addition) => Verifies

\* C2: under Multiplication, the chain in the order SplitD returned the
\* shards ends with bytes that verify under the key's (N, e).
C2_MultiplicativeChainVerifies ==
    (ChainComplete /\ splitBy = Multiplication /\ NaturalOrder) => Verifies

\* C3: the exponents of the shards of an additive split sum to d modulo
\* phi(N), the product of (p - 1) over all the primes.
C3_SumCongruent ==
    (SplitReturned /\ splitBy = Addition)
        => congruentModN(shardSum(shards), key.D, PhiN)

C3_Witness ==
    /\ SplitReturned /\ splitBy = Addition
    /\ Len(key.Primes) = 3 /\ k = 3
    /\ shards[k].D < 0

\* C4: the product of the exponents of the shards of a multiplicative split
\* is d modulo phi(N).
C4_ProductCongruent ==
    (SplitReturned /\ splitBy = Multiplication)
        => shardProduct(shards, PhiN) = key.D % PhiN

C4_Witness ==
    /\ SplitReturned /\ splitBy = Multiplication
    /\ Len(key.Primes) = 3 /\ k = 3
    /\ shards[k].D > PhiN

\* C5: the bytes returned by the terminal sign call of a chain are exactly
\* as long as the modulus.
C5_FinalLength == ChainComplete => Len(sig) = Size(key.N)

\* C6: after a proper prefix of the signers the signature does not verify.
C6_PrefixNeverVerifies ==
    (pc = "signing" /\ Len(signers) < k) => ~Verifies

\* C7: the shard exponents of a split are pairwise distinct.
C7_PairwiseDistinct ==
    SplitReturned =>
        \A a, b \in 1 .. Len(shards) : a # b => shards[a].D # shards[b].D

\* C8: every shard exponent of a split lies strictly between 1 and phi(N).
C8_ShardRange ==
    SplitReturned =>
        \A j \in 1 .. Len(shards) : 1 < shards[j].D /\ shards[j].D < PhiN

C10_ExactlyK ==
    SplitReturned =>
        /\ Len(shards) = k
        /\ \A j \in 1 .. Len(shards) : shards[j] # NilShard

C10_Witness ==
    /\ SplitReturned /\ k = 3
    /\ splitBy = Multiplication
    /\ Len(shards) = 3

\* DecodePEM has returned on the very text EncodePEM wrote.
RoundTripDone ==
    pc = "decoded" /\ encoded = EncodeWith(codec, original).pem

\* C11: decoding the PEM text of a shard succeeds and returns a shard equal
\* to the original (N, e, d_i and, where the shard has one, the scheme tag).
C11_RoundTrip ==
    RoundTripDone => decoded.err = NoError /\ decoded.shard = original

\* C12: encoding a shard, decoding the text and encoding the result again
\* gives the text of the first encoding.
C12_ReEncode ==
    RoundTripDone => EncodeWith(codec, decoded.shard).pem = encoded

C12_Witness ==
    /\ RoundTripDone /\ decoded.err = NoError
    /\ codec = "PrivateKeyShard" /\ original.SplitBy = Addition
    /\ original.D < 0

\* The text given to DecodePEM holds a block of the right type followed by
\* more text, or a block whose DER payload goes on after the SEQUENCE.
TrailingBytes ==
    LET p == pemDecode(encoded)
    IN  /\ p.block # NilBlock
        /\ p.block.Type = pemType
        /\ \/ Len(p.rest) > 0
           \/ LET top == parseTLV(p.block.Bytes)
              IN  top.ok /\ Len(top.rest) > 0

\* C13: DecodePEM returns an error whenever its input carries trailing
\* bytes, after the PEM block or after the SEQUENCE of the DER payload.
C13_TrailingRejected ==
    (pc = "decoded" /\ TrailingBytes) => decoded.err # NoError

\* C14: SplitD with k < 2 returns an error and no shards, whatever the
\* scheme, and never reaches the sampling loops.
C14_FewShardsRejected ==
    (k < 2 /\ pc # "SplitD") =>
        pc = "failed" /\ err = ErrFewShards /\ shards = <<>>

C14_Witness ==
    k = 1 /\ pc = "failed" /\ splitBy = Multiplication /\ err = ErrFewShards

\* C15: SplitD on a key with fewer than two primes ends with an error
\* value; it never panics.
C15_FewPrimesTypedError ==
    (Len(key.Primes) < 2 /\ pc # "SplitD") => pc = "failed"

\* C16: SignFirst with a hash identifier that has a digest size and a
\* hashed input of another length returns the error of a wrong input length
\* and no signature, for every shard of a split.
C16_WrongLengthRejected ==
    SplitReturned =>
        \A j \in 1 .. Len(shards), h \in SizedHashes, hs \in HashedInputs :
            Len(hs) # HashSize(h) =>
                SignFirst(shards[j], h, hs)
                    = [sig |-> <<>>, err |-> ErrHashedLength]

C16_Witness ==
    /\ pc = "signFailed" /\ err = ErrHashedLength /\ sig = <<>>
    /\ key = BigKey /\ signers = <<>>

\* C17: SignFirst with a hash identifier that is neither the raw sentinel
\* nor an entry of the prefix table fails with the error of an unsupported
\* hash, whatever the hashed input.
C17_UnknownHashRejected ==
    SplitReturned =>
        \A j \in 1 .. Len(shards), hs \in HashedInputs,
           h \in HashFns \ ({Raw} \cup DOMAIN hashPrefixes) :
            SignFirst(shards[j], h, hs).err = ErrUnsupportedHash

EncodedInt ==
    LET info == pkcs1v15HashInfo(hashFn, Len(hashed))
    IN  SetBytes(EncodedMessage(Size(key.N), info.prefix, hashed))

C20_FinalShardInRange ==
    (SplitReturned /\ splitBy = Addition)
        => 1 <= shards[k].D /\ shards[k].D < PhiN

\* C21: every pair split of the multiplicative scheme returns shardB as the
\* residue of seed * shardA^-1 in [0, phi): the seed carried to the next
\* round and the last shard are below phi.
C21_ShardBReduced ==
    (splitBy = Multiplication /\ pc \in {"splitMultiplicative", "returned"})
        => /\ seed < PhiN
           /\ SplitReturned => shards[k].D < PhiN

\* Partial signatures whose integer value exceeds the modulus n: one octet
\* longer than n, the leading octet not zero.
OversizedPartials(n) == {<<1>> \o FillBytes(x, Size(n)) : x \in {0, 1, n}}

\* C22: SignNext, under either scheme, returns an error and no signature
\* for every partial signature whose integer value exceeds the modulus.
C22_OversizedPartialRejected ==
    (pc = "signing" /\ Len(signers) < k) =>
        \A j \in (1 .. k) \ Signed, p \in OversizedPartials(key.N) :
            LET r == SignNext(shards[j], hashFn, hashed, splitBy, p)
            IN  SetBytes(p) > key.N => r.err # NoError /\ r.sig = <<>>

\* SignFirst has returned the first partial signature of a session.
FirstSigned == pc = "signing" /\ Len(signers) = 1

\* The hash information of the signing session.
SessionInfo == pkcs1v15HashInfo(hashFn, Len(hashed))

\* n octets of 0xFF.
PaddingString(n) == [j \in 1 .. n |-> ByteRadix - 1]

\* C23: the encoded message of an accepted input is the block of Size(N)
\* octets 0x00, 0x01, Size(N) - tLen - 3 octets 0xFF, 0x00, the prefix of
\* the hash, the digest; for the raw sentinel the prefix is empty and the
\* input is accepted whatever its length.
C23_EncodedLayout ==
    /\ FirstSigned =>
          LET tLen == Len(SessionInfo.prefix) + Len(hashed)
              em   == EncodedMessage(Size(key.N), SessionInfo.prefix, hashed)
          IN  /\ Size(key.N) >= tLen + MinPadding
              /\ Len(em) = Size(key.N)
              /\ em = <<0, 1>> \o PaddingString(Size(key.N) - tLen - 3)
                         \o <<0>> \o SessionInfo.prefix \o hashed
              /\ hashFn = Raw => SessionInfo.prefix = <<>>
    /\ \A hs \in HashedInputs :
          pkcs1v15HashInfo(Raw, Len(hs))
              = [hashLen |-> Len(hs), prefix |-> <<>>, err |-> NoError]

C23_Witness ==
    /\ FirstSigned /\ hashFn = "SHA512"
    /\ SessionInfo.prefix # <<>> /\ Len(hashed) = 1

\* The hashed input hs is accepted under the hash h for the modulus n.
Accepted(h, hs, n) ==
    LET info == pkcs1v15HashInfo(h, Len(hs))
    IN  /\ info.err = NoError
        /\ Size(n) >= Len(info.prefix) + info.hashLen + MinPadding

\* The encoded message of an accepted input as an integer.
MessageInt(h, hs, n) ==
    SetBytes(EncodedMessage(Size(n), pkcs1v15HashInfo(h, Len(hs)).prefix, hs))

\* s is m^d mod n; for d < 0 the power of the inverse of m.
IsPowerModN(s, m, d, n) ==
    /\ 0 <= s /\ s < n
    /\ IF d >= 0 THEN s = PowMod(m, d, n)
                 ELSE (s * PowMod(m, -d, n)) % n = 1 % n

\* C24: for every shard (N, d_i) of a split and every accepted hash input,
\* SignFirst returns exactly Size(N) octets whose big-endian value is
\* m^(d_i) mod N, m the encoded message.
C24_SignFirstValue ==
    SplitReturned =>
        \A j \in 1 .. Len(shards), h \in HashFns, hs \in HashedInputs :
            Accepted(h, hs, key.N) =>
                LET r == SignFirst(shards[j], h, hs)
                IN  /\ r.err = NoError
                    /\ Len(r.sig) = Size(key.N)
                    /\ IsPowerModN(SetBytes(r.sig), MessageInt(h, hs, key.N),
                                   shards[j].D, key.N)

\* A call SplitD(key, k, scheme) with a key of two primes or more, k >= 2
\* and one of the two schemes.
ValidSplitCall ==
    /\ Len(key.Primes) >= 2
    /\ k >= 2
    /\ splitBy \in {Multiplication, Addition}

\* C25: under a fair random source that returns no error, SplitD returns
\* for every valid key and every k >= 2.
C25_SplitTerminates == ValidSplitCall ~> pc = "returned"

\* The shards of a multiplicative split of the seed sd run alone on the
\* accepted draws.
RECURSIVE multiplicativeAlone(_, _, _)
multiplicativeAlone(sd, phi, draws) ==
    IF Len(draws) = 1 THEN <<draws[1], splitSeed(sd, draws[1], phi)>>
    ELSE <<draws[1]>>
            \o multiplicativeAlone(splitSeed(sd, draws[1], phi), phi,
                                   Tail(draws))

RECURSIVE SumOf(_)
SumOf(list) == IF list = <<>> THEN 0 ELSE list[1] + SumOf(Tail(list))

\* The shards of an additive split run alone on the accepted draws.
additiveAlone(d, phi, draws) ==
    Append(draws, finalShard(SumOf(draws), d, phi).D)

\* What each of the three calls returns when it runs alone on the arguments
\* as they were at the start.
SignFirstAlone ==
    SignFirst([PublicKey |-> [N |-> heap0[privN], E |-> key.E],
               D |-> heap0[shardD(1)]], hashFn, heap0[hashedCell])

SignNextAlone ==
    SignNext([PublicKey |-> [N |-> heap0[privN], E |-> key.E],
              D |-> heap0[shardD(2)]], hashFn, heap0[hashedCell], splitBy,
             heap0[partialSigCell])

SplitDAlone ==
    LET phi == eulerTotient(heap0[privPrimes])
    IN  IF splitBy = Multiplication
        THEN multiplicativeAlone(heap0[privD], phi, loc.draws)
        ELSE additiveAlone(heap0[privD], phi, loc.draws)

Returned(p) == cpc[p] \in {"done", "panic"}

\* C26: whatever the interleaving of SplitD, SignFirst and SignNext, the
\* private key, the shards passed in, the hashed message, the partial
\* signature and the package variables keep the values they had, and what a
\* call returns is what it returns when it runs alone.
C26_Frame ==
    /\ \A c \in InputCells : heap[c] = heap0[c]
    /\ Returned("SignFirst") =>
          res["SignFirst"] = [val |-> SignFirstAlone.sig,
                              err |-> SignFirstAlone.err]
    /\ Returned("SignNext") =>
          res["SignNext"] = [val |-> SignNextAlone.sig,
                             err |-> SignNextAlone.err]
    /\ (Returned("SplitD") /\ res["SplitD"].err = NoError) =>
          [j \in 1 .. Len(res["SplitD"].val) |-> heap[res["SplitD"].val[j]]]
              = SplitDAlone

C26_Witness ==
    /\ \A p \in Procs : cpc[p] = "done" /\ res[p].err = NoError
    /\ k = 3 /\ splitBy = Addition
    /\ Len(res["SplitD"].val) = 3
    /\ heap[res["SplitD"].val[3]] < 0

\* C27: no shard returned by SplitD is the private exponent d itself.
C27_NoShardIsD ==
    SplitReturned => \A j \in 1 .. Len(shards) : shards[j].D # key.D

\* Hash arguments other than those of the session: every hash identifier
\* with an empty and with a one-octet hashed input.
OtherHashArguments == HashFns \X {<<>>, <<1>>}

\* C28: under Multiplication what SignNext returns does not depend on the
\* hash arguments: for every hash identifier and hashed input, of a wrong
\* length or unsupported ones included, it returns the bytes it returns for
\* the arguments of the session, and no error about the hash.
C28_HashIgnored ==
    (pc = "signing" /\ splitBy = Multiplication) =>
        \A j \in (1 .. Len(shards)) \ Signed :
            LET r0 == SignNext(shards[j], hashFn, hashed, Multiplication, sig)
            IN  /\ r0.err \notin {ErrHashedLength, ErrUnsupportedHash, Panic}
                /\ \A a \in OtherHashArguments :
                      SignNext(shards[j], a[1], a[2], Multiplication, sig) = r0

C28_Witness ==
    /\ pc = "signing" /\ splitBy = Multiplication
    /\ k = 3 /\ Len(signers) = 2
    /\ hashFn = "SHA512"

\* C29: when DecodePEM returns an error it returns no shard.
C29_ErrorMeansNoShard ==
    (pc = "decoded" /\ decoded.err # NoError) => decoded.shard = NilShard

\* Moduli of 13, 14 and 15 octets: the least and the greatest of a length.
SampleModuli ==
    {Power(ByteRadix, 12), Power(ByteRadix, 12) + 1, Power(ByteRadix, 13) - 1,
     Power(ByteRadix, 13), Power(ByteRadix, 14) - 1, Power(ByteRadix, 14)}

\* C30: for every modulus and every hash input the encoder accepts, the
\* encoded message as an integer is strictly below the modulus: decrypt does
\* not reject it, and SignFirst never returns the decryption error.
C30_MessageBelowModulus ==
    /\ FirstSigned =>
          /\ EncodedInt < key.N
          /\ \A n \in SampleModuli :
                Accepted(hashFn, hashed, n) =>
                    /\ MessageInt(hashFn, hashed, n) < n
                    /\ decrypt([N |-> n, D |-> 1],
                               MessageInt(hashFn, hashed, n)).err = NoError
    /\ (pc = "signFailed" /\ signers = <<>>) => err # ErrDecryption

C30_Witness ==
    /\ FirstSigned /\ hashFn = Raw
    /\ Size(key.N) = Len(hashed) + MinPadding
    /\ EncodedInt < key.N

====
